---- MODULE Spec2Model ----
(***************************************************************************)
(* A model of the Authelia user-administration GUI: the record model       *)
(* (app/models.py), the store writer (app/users_io.py), the change         *)
(* propagator (app/restart.py, app/authelia_config.py), the access guard   *)
(* (app/security.py), the route handlers (app/app.py) and the audit log    *)
(* (app/audit.py).                                                         *)
(*                                                                         *)
(* Strings are sequences of one-character strings, so that strip(),        *)
(* lower(), split() and the regular expression are computed and not        *)
(* assumed.                                                                *)
(***************************************************************************)
EXTENDS Integers, Sequences, FiniteSets, TLC

VARIABLES
    \* ---- store writer (users_io.py) ----
    storeFile,    \* users.yml: a File, or NoFile
    tempFile,     \* the .users_tmp_*.yml file of the running save, or NoFile
                  \* (a file's mtime is the number of the call that wrote it)
    backups,      \* the backup directory: a set of [name, content, mtime]
    now,          \* wall clock in whole seconds (the resolution of backup names)
    pc,           \* position of the single writer inside add_user/delete_user/save_users
    op,           \* the running call: its arguments, the snapshot to save, the pre-write file
    lastResult,   \* outcome of the last finished call, as seen by its caller
    calls,        \* number of calls that went on into save_users
    saves,        \* save_users calls that returned without error (counted up to BackupKeep + 1)
    readerSaw,    \* what a concurrent load saw during the running save
    \* ---- change propagator (restart.py) ----
    prop,
    \* ---- access guard (security.py) ----
    guard,
    \* ---- route handlers (app.py) ----
    route,
    \* ---- a validator or conversion applied to one input ----
    calc,
    \* ---- audit log (audit.py) ----
    audit,        \* the rows of audit_log, oldest first: [action, target]
    \* ---- requests handled concurrently by one event loop (app.py) ----
    handlers      \* per request: its position around the store call

storeVars == <<storeFile, tempFile, backups, now, pc, op,
               lastResult, calls, saves, readerSaw>>
vars == <<storeFile, tempFile, backups, now, pc, op,
          lastResult, calls, saves, readerSaw, prop, guard, route, calc, audit, handlers>>

----------------------------------------------------------------------------
(* Bounds of the model. *)

MaxCalls == 3      \* add_user/delete_user calls that reach save_users
MaxNow == 1        \* the clock runs over seconds 0..MaxNow
BackupKeep == 2    \* settings.backup_keep of the modelled deployment (>= 1)

----------------------------------------------------------------------------
(* Strings. *)

S1(a) == <<a>>
Pad(n, c) == [i \in 1..n |-> c]

UpperAlpha == <<"A","B","C","D","E","F","G","H","I","J","K","L","M",
                "N","O","P","Q","R","S","T","U","V","W","X","Y","Z">>
LowerAlpha == <<"a","b","c","d","e","f","g","h","i","j","k","l","m",
                "n","o","p","q","r","s","t","u","v","w","x","y","z">>
Digits == {"0","1","2","3","4","5","6","7","8","9"}
Whitespace == {" ", "\t", "\n", "\r"}

Range(s) == {s[i] : i \in DOMAIN s}

\* the lowercase letter of every uppercase ASCII letter
LowerOf ==
    [c \in Range(UpperAlpha) |->
        LowerAlpha[CHOOSE i \in DOMAIN UpperAlpha : UpperAlpha[i] = c]]

\* str.lower() on one character
LowerChar(c) == IF c \in DOMAIN LowerOf THEN LowerOf[c] ELSE c

\* str.lower()
Lower(s) == [i \in DOMAIN s |-> LowerChar(s[i])]

\* str.strip(): drop leading and trailing whitespace
Strip(s) ==
    LET keep == {i \in DOMAIN s : s[i] \notin Whitespace}
    IN  IF keep = {} THEN <<>>
        ELSE LET lo == CHOOSE i \in keep : \A j \in keep : i <= j
                 hi == CHOOSE i \in keep : \A j \in keep : j <= i
             IN  SubSeq(s, lo, hi)

\* s.split('@')[-1]: the part after the last '@' (all of s when there is none)
AfterLastAt(s) ==
    LET ats == {i \in DOMAIN s : s[i] = "@"}
    IN  IF ats = {} THEN s
        ELSE SubSeq(s, (CHOOSE i \in ats : \A j \in ats : j <= i) + 1, Len(s))

\* str.startswith
StartsWith(s, p) == Len(s) >= Len(p) /\ SubSeq(s, 1, Len(p)) = p

----------------------------------------------------------------------------
(* Record model (models.py). *)

AdminGroup == <<"a","d","m","i","n","s">>

BcryptPrefixes == { <<"$","2","a","$">>, <<"$","2","b","$">>, <<"$","2","y","$">> }

\* UserConfig.validate_password_hash
ValidPasswordHash(v) ==
    /\ Len(v) >= 20
    /\ \E p \in BcryptPrefixes : StartsWith(v, p)

\* UserConfig.validate_email: the normalised value
NormalizeEmail(v) == Lower(Strip(v))

\* UserConfig.validate_email: the acceptance test, on the normalised value
ValidEmail(v) ==
    LET n == NormalizeEmail(v)
    IN  /\ n # <<>>
        /\ "@" \in Range(n)
        /\ "." \in Range(AfterLastAt(n))

\* faulty variant of the deduplication: nothing is dropped
DedupeNone(list, seen) == list

\* Deduplicate while preserving order (the seen/deduped loop)
RECURSIVE Dedupe(_, _)
Dedupe(list, seen) ==
    IF list = <<>> THEN <<>>
    ELSE IF Head(list) \in seen THEN Dedupe(Tail(list), seen)
         ELSE <<Head(list)>> \o Dedupe(Tail(list), seen \cup {Head(list)})

\* [g.strip().lower() for g in v if g and g.strip()]
RECURSIVE StripLowerNonEmpty(_)
StripLowerNonEmpty(v) ==
    IF v = <<>> THEN <<>>
    ELSE IF Head(v) # <<>> /\ Strip(Head(v)) # <<>>
         THEN <<Lower(Strip(Head(v)))>> \o StripLowerNonEmpty(Tail(v))
         ELSE StripLowerNonEmpty(Tail(v))

\* UserConfig.validate_groups
NormalizeGroups(v) == Dedupe(StripLowerNonEmpty(v), {})

\* UserConfig(...): the field constraints and validators; ok = no ValidationError
ValidateUserConfig(raw) ==
    LET good == /\ ValidPasswordHash(raw.password)
                /\ Len(raw.displayname) >= 1 /\ Len(raw.displayname) <= 100
                /\ ValidEmail(raw.email)
    IN  [ok  |-> good,
         rec |-> [password    |-> raw.password,
                  displayname |-> raw.displayname,
                  email       |-> NormalizeEmail(raw.email),
                  groups      |-> NormalizeGroups(raw.groups)]]

AlnumLower == Range(LowerAlpha) \cup Digits
UsernameInner == AlnumLower \cup {".", "_", "-"}

\* ^[a-z0-9][a-z0-9._-]{1,30}[a-z0-9] matched against all of s
UsernameCore(s) ==
    /\ Len(s) >= 3 /\ Len(s) <= 32
    /\ s[1] \in AlnumLower
    /\ s[Len(s)] \in AlnumLower
    /\ \A i \in 2..(Len(s) - 1) : s[i] \in UsernameInner

\* USERNAME_PATTERN.match(s): '$' also matches just before one trailing newline
UsernamePatternMatch(s) ==
    \/ UsernameCore(s)
    \/ /\ Len(s) >= 1 /\ s[Len(s)] = "\n"
       /\ UsernameCore(SubSeq(s, 1, Len(s) - 1))

\* UsersFile(users=...): every value is a valid UserConfig and every key matches
\* the username pattern; the values come back normalised
ValidateUsersFile(rawUsers) ==
    LET parsed == [k \in DOMAIN rawUsers |-> ValidateUserConfig(rawUsers[k])]
        good == /\ \A k \in DOMAIN rawUsers : parsed[k].ok
                /\ \A k \in DOMAIN rawUsers : UsernamePatternMatch(k)
    IN  [ok    |-> good,
         users |-> [k \in DOMAIN rawUsers |-> parsed[k].rec]]

\* CreateUserRequest.username: Field(min_length=2, max_length=32) on the value
\* as given, then validate_username on its stripped, lowercased form
ValidateUsername(v) ==
    LET n == Lower(Strip(v))
    IN  [ok    |-> /\ Len(v) >= 2 /\ Len(v) <= 32
                   /\ UsernamePatternMatch(n),
         value |-> n]

\* CreateUserRequest.validate_email
ValidateRequestEmail(v) ==
    LET n == Lower(Strip(v))
    IN  [ok    |-> "@" \in Range(n) /\ "." \in Range(AfterLastAt(n)),
         value |-> n]

\* CreateUserRequest.validate_groups: list(dict.fromkeys(normalized))
RequestGroups(v) == Dedupe(StripLowerNonEmpty(v), {})

\* CreateUserRequest(...): ok = no ValidationError; the password is given by
\* its length
ValidateCreateUserRequest(raw) ==
    [ok       |-> /\ ValidateUsername(raw.username).ok
                  /\ ValidateRequestEmail(raw.email).ok
                  /\ Len(raw.displayname) >= 1 /\ Len(raw.displayname) <= 100
                  /\ raw.passwordLen >= 12 /\ raw.passwordLen <= 128,
     username |-> ValidateUsername(raw.username).value,
     email    |-> ValidateRequestEmail(raw.email).value,
     groups   |-> RequestGroups(raw.groups)]

----------------------------------------------------------------------------
(* Store writer (users_io.py): files. *)

NoFile == [exists |-> FALSE, top |-> "none", users |-> <<>>, torn |-> FALSE, mtime |-> 0]
NoUsers == <<>>          \* the empty mapping

\* A file holding a document whose top level is a mapping with a 'users'
\* mapping: that mapping, whether the document is incomplete (a write that has
\* not finished), and its modification stamp.
File(users, torn, mtime) ==
    [exists |-> TRUE, top |-> "mapping", users |-> users, torn |-> torn, mtime |-> mtime]

\* A file found in place, holding a document of the given top-level value
Document(top, users) ==
    [exists |-> TRUE, top |-> top, users |-> users, torn |-> FALSE, mtime |-> 0]

\* what yaml.safe_load can return besides a mapping with a 'users' mapping:
\* None (an empty file), [], {}, a non-empty list, a string, a number, a
\* mapping without 'users', a mapping whose 'users' is a list
FalsyTops == {"empty", "empty_list", "empty_mapping"}
OtherTops == {"list", "string", "number", "no_users", "users_list"}

\* load_users: ok = a snapshot is returned; error = the exception raised
LoadUsers(file) ==
    IF ~file.exists THEN [ok |-> TRUE, users |-> NoUsers, error |-> "none"]
    ELSE IF file.torn THEN [ok |-> FALSE, users |-> NoUsers, error |-> "ValueError"]
    ELSE IF file.top \in FalsyTops                     \* if not data
         THEN [ok |-> TRUE, users |-> NoUsers, error |-> "none"]
    ELSE IF file.top = "number"                        \* 'users' not in 42
         THEN [ok |-> FALSE, users |-> NoUsers, error |-> "TypeError"]
    ELSE IF file.top # "mapping"
         THEN [ok |-> FALSE, users |-> NoUsers, error |-> "ValueError"]
    ELSE LET parsed == ValidateUsersFile(file.users)
         IN  [ok    |-> parsed.ok,
              users |-> parsed.users,
              error |-> IF parsed.ok THEN "none" ELSE "ValueError"]

\* faulty variant of the dict that is dumped: the groups are left out
DumpUsersNoGroups(users) ==
    [k \in DOMAIN users |->
        [password    |-> users[k].password,
         displayname |-> users[k].displayname,
         email       |-> users[k].email,
         groups      |-> <<>>]]

\* save_users, lines 111-119: the YAML-friendly dict of a UsersFile
DumpUsers(users) ==
    [k \in DOMAIN users |->
        [password    |-> users[k].password,
         displayname |-> users[k].displayname,
         email       |-> users[k].email,
         groups      |-> users[k].groups]]

\* users_file.users[username] = new_user
Insert(users, username, rec) ==
    [k \in DOMAIN users \cup {username} |-> IF k = username THEN rec ELSE users[k]]

\* del users_file.users[username]
Remove(users, username) ==
    [k \in DOMAIN users \ {username} |-> users[k]]

\* faulty variant of the existence test: an existing record is not noticed
UserExistsNever(users, username) == FALSE

\* add_user, line 173: username in users_file.users
UserExists(users, username) == username \in DOMAIN users

\* the records of a snapshot that hold the admin group
Admins(users) == {k \in DOMAIN users : AdminGroup \in Range(users[k].groups)}

\* faulty variants of the last-admin test: the count compared with < instead of <=,
\* and the count taken over all records instead of the admins
LastAdminOffByOne(users, username) ==
    /\ AdminGroup \in Range(users[username].groups)
    /\ Cardinality(Admins(users)) < 1

LastAdminCountsAll(users, username) ==
    /\ AdminGroup \in Range(users[username].groups)
    /\ Cardinality(DOMAIN users) <= 1

\* delete_user, lines 212-222: the last-admin test
LastAdminBlocked(users, username) ==
    /\ AdminGroup \in Range(users[username].groups)
    /\ Cardinality(Admins(users)) <= 1

\* _create_backup: copy2 of the store file to users.yml.bak.<timestamp>;
\* a second copy under the same name overwrites the first
CreateBackup(dir, file, stamp) ==
    {b \in dir : b.name # stamp} \cup {[name |-> stamp, file |-> file]}

\* _prune_backups: the directories that sorting by st_mtime descending and
\* unlinking everything past backup_keep can leave. Backups of equal st_mtime
\* (copy2 keeps the source's stamp) are ordered as glob() lists them, so the
\* result is one of several.
PruneBackups(dir, keep) ==
    {kept \in SUBSET dir :
        /\ Cardinality(kept) = IF Cardinality(dir) < keep THEN Cardinality(dir) ELSE keep
        /\ \A b \in kept : \A c \in dir \ kept : b.file.mtime >= c.file.mtime}

\* faulty variant of the cleanup: the temp file is not unlinked
CleanupTempLeak(tf) == tf

\* save_users, lines 133-139: the temp file after the cleanup of a failed write
CleanupTemp(tf) == NoFile

\* faulty variant of the write: the document is written into the target itself, which
\* holds an unfinished document until the write is complete
WriteYamlInPlace(target, temp, doc) ==
    [target |-> [doc EXCEPT !.torn = TRUE], temp |-> temp]

\* save_users, lines 122-126: where yaml.dump writes the document
\* (the temp file; the target is touched by os.replace alone)
WriteYaml(target, temp, doc) == [target |-> target, temp |-> doc]

----------------------------------------------------------------------------
(* Store writer: inputs. *)

Amy == <<"a","m","y">>
Bob == <<"b","o","b">>
Usernames == {Amy, Bob}

EmailA      == <<"a","@","x",".","y">>
EmailAUpper == <<" ","A","@","X",".","y">>      \* the same address, not normalised
EmailB      == <<"b","@","x",".","y">>
EmailNoDot  == <<"a","@","x","y">>

HashOk  == <<"$","2","b","$","1","2","$">> \o Pad(13, "h")
HashBad == <<"p","w">>

GroupsNone  == <<>>
GroupsAdmin == <<AdminGroup>>
GroupsRaw   == << <<" ","A","d","m","i","n","s">>, <<>>, AdminGroup >>

\* the (email, password_hash, groups) arguments add_user is called with
AddArgs ==
    { [email |-> EmailAUpper, password |-> HashOk,  groups |-> GroupsRaw],
      [email |-> EmailA,      password |-> HashOk,  groups |-> GroupsAdmin],
      [email |-> EmailB,      password |-> HashOk,  groups |-> GroupsNone],
      [email |-> EmailNoDot,  password |-> HashOk,  groups |-> GroupsNone],
      [email |-> EmailB,      password |-> HashBad, groups |-> GroupsNone] }

DisplayName == <<"N">>

NoOp == [kind |-> "none", user |-> <<>>, pending |-> NoUsers, pre |-> NoFile]
NoResult == [kind |-> "none", user |-> <<>>, outcome |-> "none"]
NotRead == [read |-> FALSE, partial |-> FALSE, users |-> NoUsers]

\* records as a hand-edited users.yml can hold them
RecAdmin   == [password |-> HashOk,  displayname |-> DisplayName,
               email |-> EmailA,      groups |-> GroupsAdmin]
RecRaw     == [password |-> HashOk,  displayname |-> DisplayName,
               email |-> EmailAUpper, groups |-> GroupsRaw]
RecPlain   == [password |-> HashOk,  displayname |-> DisplayName,
               email |-> EmailB,      groups |-> GroupsNone]
RecBadHash == [password |-> HashBad, displayname |-> DisplayName,
               email |-> EmailB,      groups |-> GroupsNone]

\* the users.yml files the program can find in place when it starts
StoreDocuments ==
    { Document("mapping", NoUsers),
      Document("mapping", Amy :> RecAdmin),
      Document("mapping", Amy :> RecRaw),
      Document("mapping", (Amy :> RecRaw) @@ (Bob :> RecAdmin)),
      Document("mapping", (Amy :> RecAdmin) @@ (Bob :> RecBadHash)),
      Document("mapping", (Amy :> RecAdmin) @@ (<<"b", "b">> :> RecPlain)),
      Document("mapping", (Amy :> RecAdmin) @@ (<<"b", "o", "b", "\n">> :> RecPlain)),
      Document("mapping", (Amy :> RecAdmin) @@ (<<".", "b", "o">> :> RecPlain)) }
      \cup { Document(top, NoUsers) : top \in FalsyTops \cup OtherTops }

\* the store writer starts with one of these files, or none, in place
InitStoreDocuments ==
    /\ storeFile \in StoreDocuments \cup {NoFile}
    /\ tempFile = NoFile
    /\ backups = {}
    /\ now = 0
    /\ pc = "idle"
    /\ op = NoOp
    /\ lastResult = NoResult
    /\ calls = 0
    /\ saves = 0
    /\ readerSaw = NotRead

InitStore ==
    /\ storeFile = NoFile
    /\ tempFile = NoFile
    /\ backups = {}
    /\ now = 0
    /\ pc = "idle"
    /\ op = NoOp
    /\ lastResult = NoResult
    /\ calls = 0
    /\ saves = 0
    /\ readerSaw = NotRead

----------------------------------------------------------------------------
(* Store writer: operations. *)

\* the call returns to its caller with `outcome` and has written nothing
Return(kind, username, outcome) ==
    /\ lastResult' = [kind |-> kind, user |-> username, outcome |-> outcome]
    /\ pc' = "idle"
    /\ op' = NoOp
    /\ readerSaw' = NotRead
    /\ UNCHANGED calls

\* the call goes on into save_users(users_file, create_backup=True)
EnterSave(kind, username, pending) ==
    /\ op' = [kind |-> kind, user |-> username, pending |-> pending, pre |-> storeFile]
    /\ pc' = "backup"
    /\ calls' = calls + 1
    /\ readerSaw' = NotRead
    /\ UNCHANGED lastResult

\* add_user, up to the call of save_users
AddUser(username, email, displayname, password_hash, groups) ==
    /\ pc = "idle"
    /\ calls < MaxCalls
    /\ LET ld == LoadUsers(storeFile)
           v  == ValidateUserConfig([password |-> password_hash,
                                     displayname |-> displayname,
                                     email |-> email, groups |-> groups])
       IN  IF ~ld.ok THEN Return("add", username, "loaderror")
           ELSE IF UserExists(ld.users, username) THEN Return("add", username, "exists")
           ELSE IF ~v.ok THEN Return("add", username, "invalid")
           ELSE EnterSave("add", username, Insert(ld.users, username, v.rec))
    /\ UNCHANGED <<storeFile, tempFile, backups, now, saves>>
    /\ UNCHANGED <<prop, guard, route, calc, audit, handlers>>

\* delete_user, up to the call of save_users
DeleteUser(username) ==
    /\ pc = "idle"
    /\ calls < MaxCalls
    /\ LET ld == LoadUsers(storeFile)
       IN  IF ~ld.ok THEN Return("delete", username, "loaderror")
           ELSE IF username \notin DOMAIN ld.users
                THEN Return("delete", username, "notfound")
           ELSE IF LastAdminBlocked(ld.users, username)
                THEN Return("delete", username, "lastadmin")
           ELSE EnterSave("delete", username, Remove(ld.users, username))
    /\ UNCHANGED <<storeFile, tempFile, backups, now, saves>>
    /\ UNCHANGED <<prop, guard, route, calc, audit, handlers>>

\* save_users, lines 145-147: the IOError that reaches the caller
RaiseIOError ==
    /\ lastResult' = [kind |-> op.kind, user |-> op.user, outcome |-> "ioerror"]
    /\ pc' = "idle"
    /\ op' = NoOp
    /\ readerSaw' = NotRead

\* save_users step 1: the backup of the current file, when there is one
SaveBackup ==
    /\ pc = "backup"
    /\ \/ /\ ~storeFile.exists
          /\ pc' = "mkstemp"
          /\ UNCHANGED <<backups, lastResult, op, readerSaw>>
       \/ /\ storeFile.exists
          /\ backups' = CreateBackup(backups, storeFile, now)
          /\ pc' = "mkstemp"
          /\ UNCHANGED <<lastResult, op, readerSaw>>
       \/ /\ storeFile.exists                \* copy2 raises
          /\ RaiseIOError
          /\ UNCHANGED backups
    /\ UNCHANGED <<storeFile, tempFile, now, calls, saves>>
    /\ UNCHANGED <<prop, guard, route, calc, audit, handlers>>

\* save_users step 2a: tempfile.mkstemp in the directory of the target
SaveMkstemp ==
    /\ pc = "mkstemp"
    /\ \/ /\ tempFile' = File(NoUsers, TRUE, calls)
          /\ pc' = "write"
          /\ UNCHANGED <<lastResult, op, readerSaw>>
       \/ /\ RaiseIOError                  \* mkstemp raises: nothing was created
          /\ UNCHANGED tempFile
    /\ UNCHANGED <<storeFile, backups, now, calls, saves>>
    /\ UNCHANGED <<prop, guard, route, calc, audit, handlers>>

\* save_users step 2b: yaml.dump and flush into the open temp file
SaveWrite ==
    /\ pc = "write"
    /\ \/ LET w == WriteYaml(storeFile, tempFile,
                             File(DumpUsers(op.pending), FALSE, calls))
          IN  /\ storeFile' = w.target
              /\ tempFile' = w.temp
              /\ pc' = "fsync"
              /\ UNCHANGED <<lastResult, op, readerSaw>>
       \/ /\ tempFile' = CleanupTemp(tempFile)     \* the write raises part-way
          /\ RaiseIOError
          /\ UNCHANGED storeFile
    /\ UNCHANGED <<backups, now, calls, saves>>
    /\ UNCHANGED <<prop, guard, route, calc, audit, handlers>>

\* save_users step 3: os.fsync
SaveFsync ==
    /\ pc = "fsync"
    /\ \/ /\ pc' = "replace"
          /\ UNCHANGED <<tempFile, lastResult, op, readerSaw>>
       \/ /\ tempFile' = CleanupTemp(tempFile)
          /\ RaiseIOError
    /\ UNCHANGED <<storeFile, backups, now, calls, saves>>
    /\ UNCHANGED <<prop, guard, route, calc, audit, handlers>>

\* save_users step 4: os.replace(temp_path, users_file_path)
SaveReplace ==
    /\ pc = "replace"
    /\ \/ /\ storeFile' = tempFile
          /\ tempFile' = NoFile
          /\ pc' = "prune"
          /\ UNCHANGED <<lastResult, op, readerSaw>>
       \/ /\ tempFile' = CleanupTemp(tempFile)
          /\ RaiseIOError
          /\ UNCHANGED storeFile
    /\ UNCHANGED <<backups, now, calls, saves>>
    /\ UNCHANGED <<prop, guard, route, calc, audit, handlers>>

\* save_users step 5: _prune_backups, then the return to the caller
SavePrune ==
    /\ pc = "prune"
    /\ backups' \in PruneBackups(backups, BackupKeep)
    /\ saves' = IF saves <= BackupKeep THEN saves + 1 ELSE saves
    /\ lastResult' = [kind |-> op.kind, user |-> op.user, outcome |-> "ok"]
    /\ pc' = "idle"
    /\ op' = NoOp
    /\ readerSaw' = NotRead
    /\ UNCHANGED <<storeFile, tempFile, now, calls>>
    /\ UNCHANGED <<prop, guard, route, calc, audit, handlers>>

\* a load_users of another request or process while the save is running
ReaderLoad ==
    /\ pc \notin {"idle"}
    /\ readerSaw' = [read    |-> TRUE,
                     partial |-> ~LoadUsers(storeFile).ok,
                     users   |-> LoadUsers(storeFile).users]
    /\ UNCHANGED <<storeFile, tempFile, backups, now, pc, op,
                   lastResult, calls, saves>>
    /\ UNCHANGED <<prop, guard, route, calc, audit, handlers>>

\* a second of wall-clock time passes
Tick ==
    /\ now < MaxNow
    /\ now' = now + 1
    /\ UNCHANGED <<storeFile, tempFile, backups, pc, op, lastResult,
                   calls, saves, readerSaw>>
    /\ UNCHANGED <<prop, guard, route, calc, audit, handlers>>

NextStore ==
    \/ \E u \in Usernames, a \in AddArgs :
          AddUser(u, a.email, DisplayName, a.password, a.groups)
    \/ \E u \in Usernames : DeleteUser(u)
    \/ SaveBackup
    \/ SaveMkstemp
    \/ SaveWrite
    \/ SaveFsync
    \/ SaveReplace
    \/ SavePrune
    \/ ReaderLoad
    \/ Tick

\* add_user and delete_user calls without the clock and the concurrent reader
NextDocuments ==
    \/ \E u \in Usernames, a \in AddArgs :
          AddUser(u, a.email, DisplayName, a.password, a.groups)
    \/ \E u \in Usernames : DeleteUser(u)
    \/ SaveBackup
    \/ SaveMkstemp
    \/ SaveWrite
    \/ SaveFsync
    \/ SaveReplace
    \/ SavePrune

----------------------------------------------------------------------------
(* Access guard (security.py). *)

CsrfMaxAge == 3600          \* max_age of the csrf serializer's loads, seconds
SessionTtlMinutes == 30     \* settings.session_ttl_minutes

\* A signed token (URLSafeTimedSerializer.dumps): its payload, whether its
\* signature verifies under the serializer that loads it, and its age in seconds.
\* NoToken is the empty string of an absent cookie, header or form field.
Token(payload, signed, age) ==
    [present |-> TRUE, payload |-> payload, signed |-> signed, age |-> age]
NoToken == [present |-> FALSE, payload |-> "", signed |-> FALSE, age |-> 0]

\* serializer.loads(token, max_age): BadSignature for a bad signature or a
\* malformed token, SignatureExpired (a BadSignature) when age > max_age
Loads(token, maxAge) ==
    IF token.signed /\ token.age <= maxAge
    THEN [ok |-> TRUE, data |-> token.payload]
    ELSE [ok |-> FALSE, data |-> ""]

\* forwarded_groups.replace(',', ' ').split(): the maximal runs of characters
\* that are neither a comma nor whitespace
RECURSIVE SplitGroups(_, _)
SplitGroups(s, word) ==
    IF s = <<>> THEN (IF word = <<>> THEN <<>> ELSE <<word>>)
    ELSE IF Head(s) = "," \/ Head(s) \in Whitespace
         THEN (IF word = <<>> THEN <<>> ELSE <<word>>) \o SplitGroups(Tail(s), <<>>)
         ELSE SplitGroups(Tail(s), Append(word, Head(s)))

\* is p a contiguous part of s (Python's `p in s` on strings)
Contains(s, p) ==
    \E i \in 1..(Len(s) - Len(p) + 1) : SubSeq(s, i, i + Len(p) - 1) = p

\* faulty variant of _check_rbac: the group name is looked up in the header string
\* itself, not in the list of its groups
CheckRbacSubstring(request) ==
    /\ request.groups # <<>>
    /\ Contains(request.groups, AdminGroup)

\* _check_rbac
CheckRbac(request) ==
    /\ request.groups # <<>>
    /\ AdminGroup \in Range(SplitGroups(request.groups, <<>>))

\* _check_csrf, lines 139-151: the submitted token, from the X-CSRF-Token header
\* or else from the csrf_token field of a form body
SubmittedToken(request) ==
    IF request.csrfHeader.present THEN request.csrfHeader
    ELSE IF request.formBody THEN request.csrfField
    ELSE NoToken

\* faulty variant of _check_csrf: the two tokens are verified but not compared
CheckCsrfNoCompare(request) ==
    /\ request.csrfCookie.present
    /\ SubmittedToken(request).present
    /\ Loads(request.csrfCookie, CsrfMaxAge).ok
    /\ Loads(SubmittedToken(request), CsrfMaxAge).ok

\* _check_csrf
CheckCsrf(request) ==
    /\ request.csrfCookie.present
    /\ SubmittedToken(request).present
    /\ Loads(request.csrfCookie, CsrfMaxAge).ok
    /\ Loads(SubmittedToken(request), CsrfMaxAge).ok
    /\ Loads(request.csrfCookie, CsrfMaxAge).data
          = Loads(SubmittedToken(request), CsrfMaxAge).data

\* faulty variant of _check_session: the age of the cookie is not looked at
CheckSessionNoExpiry(request) ==
    \/ ~request.session.present
    \/ request.session.signed

\* _check_session
CheckSession(request) ==
    \/ ~request.session.present
    \/ Loads(request.session, SessionTtlMinutes * 60).ok

ModifyingMethods == {"POST", "DELETE", "PUT", "PATCH"}
\* faulty variant of the exemption: only the liveness probe is exempt
ExemptPathsHealthOnly == { "/health" }
ExemptPaths == { "/health", "/watch-mode-status" }

\* _add_security_headers
SecurityHeaders ==
    { "Content-Security-Policy", "X-Frame-Options", "Referrer-Policy",
      "Strict-Transport-Security", "X-Content-Type-Options", "X-XSS-Protection" }

\* a JSONResponse returned by the middleware itself
Rejection(status) ==
    [status |-> status, handler |-> FALSE, headers |-> {},
     setSession |-> FALSE, setCsrf |-> FALSE,
     session |-> NoToken, csrf |-> NoToken, pageToken |-> NoToken]

\* _update_session: the cookie signed now with the session serializer
FreshSession == Token("s", TRUE, 0)

\* _set_csrf_cookie, lines 202-203: dumps(secrets.token_hex(32))
FreshCsrf == Token("fresh", TRUE, 0)

\* request.state when call_next runs: dispatch has set actor and ip (lines
\* 41-47); csrf_token is set by _set_csrf_cookie, after call_next
StateAtCallNext == [csrf_token |-> NoToken]

\* dashboard, line 141: getattr(request.state, 'csrf_token', '')
ReadStateToken(state) == state.csrf_token

\* faulty variant of the response: the session cookie is refreshed only for a
\* request whose session is still valid
HandledNoRefresh(request) ==
    LET setSession == request.path # "/health" /\ CheckSession(request)
        setCsrf    == request.path # "/health" /\ request.method = "GET"
    IN  [status     |-> 200,
         handler    |-> TRUE,
         headers    |-> SecurityHeaders,
         setSession |-> setSession,
         setCsrf    |-> setCsrf,
         session    |-> IF setSession THEN FreshSession ELSE NoToken,
         csrf       |-> IF setCsrf THEN FreshCsrf ELSE NoToken,
         pageToken  |-> IF request.path = "/" /\ request.method = "GET"
                        THEN ReadStateToken(StateAtCallNext) ELSE NoToken]

\* dispatch, lines 84-98: the route handler's response with the security
\* headers, the session cookie and, for a GET, the csrf cookie; pageToken is
\* the token the dashboard has rendered into its page
Handled(request) ==
    LET setSession == request.path # "/health"
        setCsrf    == request.path # "/health" /\ request.method = "GET"
    IN  [status     |-> 200,
         handler    |-> TRUE,
         headers    |-> SecurityHeaders,
         setSession |-> setSession,
         setCsrf    |-> setCsrf,
         session    |-> IF setSession THEN FreshSession ELSE NoToken,
         csrf       |-> IF setCsrf THEN FreshCsrf ELSE NoToken,
         pageToken  |-> IF request.path = "/" /\ request.method = "GET"
                        THEN ReadStateToken(StateAtCallNext) ELSE NoToken]

\* faulty variant of dispatch: the CSRF check is left out
DispatchNoCsrf(request) ==
    IF /\ request.path # "/health"
       /\ ~CheckSession(request)
       /\ request.path # "/"
    THEN Rejection(401)
    ELSE IF /\ request.method \in ModifyingMethods
            /\ request.path \notin ExemptPaths
            /\ ~CheckRbac(request)
    THEN Rejection(403)
    ELSE Handled(request)

\* dispatch: the response to a request. status 200 stands for whatever the
\* route handler answers.
Dispatch(request) ==
    IF /\ request.path # "/health"
       /\ ~CheckSession(request)
       /\ request.path # "/"
    THEN Rejection(401)
    ELSE IF /\ request.method \in ModifyingMethods
            /\ request.path \notin ExemptPaths
            /\ ~CheckRbac(request)
    THEN Rejection(403)
    ELSE IF /\ request.method \in ModifyingMethods
            /\ request.path \notin ExemptPaths
            /\ ~CheckCsrf(request)
    THEN Rejection(400)
    ELSE Handled(request)

(* Access guard: inputs. *)

Methods == {"GET"} \cup ModifyingMethods
Paths == { "/", "/users", "/health", "/watch-mode-status" }

HdrAbsent     == <<>>
HdrBlank      == <<" ">>
HdrUsers      == <<"u","s","e","r","s">>
HdrSuperAdmin == <<"x">> \o AdminGroup \o <<",">> \o HdrUsers
HdrAdmin      == AdminGroup
HdrMixed      == HdrUsers \o <<",", " ">> \o AdminGroup

\* X-Forwarded-Groups values that do not list the admin group, and that do
HeadersWithoutAdmin == {HdrAbsent, HdrBlank, HdrUsers, HdrSuperAdmin}
HeadersWithAdmin == {HdrAdmin, HdrMixed}

SessionCookies ==
    { NoToken,
      Token("s", TRUE, 0),
      Token("s", TRUE, SessionTtlMinutes * 60),
      Token("s", TRUE, SessionTtlMinutes * 60 + 1),
      Token("s", FALSE, 0) }

CsrfCookies ==
    { NoToken,
      Token("t1", TRUE, 0),
      Token("t1", TRUE, CsrfMaxAge),
      Token("t1", TRUE, CsrfMaxAge + 1),
      Token("t1", FALSE, 0) }

CsrfHeaders ==
    { NoToken,
      Token("t1", TRUE, 0),
      Token("t2", TRUE, 0),
      Token("t1", TRUE, CsrfMaxAge + 1),
      Token("t1", FALSE, 0) }

CsrfFields == { NoToken, Token("t1", TRUE, 0) }

Requests ==
    [method : Methods, path : Paths,
     groups : HeadersWithoutAdmin \cup HeadersWithAdmin,
     session : SessionCookies, csrfCookie : CsrfCookies,
     csrfHeader : CsrfHeaders, formBody : BOOLEAN, csrfField : CsrfFields]

NoRequest == [method |-> "", path |-> "", groups |-> <<>>, session |-> NoToken,
              csrfCookie |-> NoToken, csrfHeader |-> NoToken, formBody |-> FALSE,
              csrfField |-> NoToken]

GuardIdle == [phase |-> "idle", request |-> NoRequest, response |-> Rejection(0)]

InitGuard == guard = GuardIdle

\* a request arrives at the middleware
GuardReceive(request) ==
    /\ guard.phase = "idle"
    /\ guard' = [phase |-> "received", request |-> request, response |-> Rejection(0)]
    /\ UNCHANGED <<storeVars, prop, route, calc, audit, handlers>>

\* dispatch runs and the response leaves
GuardDispatch ==
    /\ guard.phase = "received"
    /\ guard' = [guard EXCEPT !.phase = "responded",
                              !.response = Dispatch(guard.request)]
    /\ UNCHANGED <<storeVars, prop, route, calc, audit, handlers>>

\* the request is over
GuardDone ==
    /\ guard.phase = "responded"
    /\ guard' = GuardIdle
    /\ UNCHANGED <<storeVars, prop, route, calc, audit, handlers>>

NextGuard ==
    \/ \E request \in Requests : GuardReceive(request)
    \/ GuardDispatch
    \/ GuardDone

----------------------------------------------------------------------------
(* Change propagator (restart.py, authelia_config.py). *)

MaxTimeout == 3         \* the configured timeouts range up to this many seconds
MaxPollSeconds == 1     \* a liveness request takes from 0 up to this many seconds
GracePeriod == 2        \* asyncio.sleep(2) before the watch-mode polling loop
PollInterval == 1       \* poll_interval

\* What the Authelia configuration file can be, as far as detection tells apart.
ConfigFiles ==
    { "stat_error",        \* Path.exists() raises (e.g. a directory without search permission)
      "missing",           \* no such file
      "unreadable",        \* open() raises
      "parse_error",       \* yaml.safe_load raises YAMLError
      "empty",             \* safe_load returns None
      "not_mapping",       \* safe_load returns a list or a scalar
      "no_backend",        \* a mapping without authentication_backend
      "no_file",           \* authentication_backend without file
      "no_watch",          \* authentication_backend.file without watch
      "watch_false",       \* authentication_backend.file.watch: false
      "watch_true" }       \* authentication_backend.file.watch: true

\* faulty variant of the detection: a missing watch key counts as enabled
DetectWatchModeDefaultTrue(config) ==
    IF config = "stat_error" THEN [raised |-> TRUE, value |-> FALSE]
    ELSE IF config \in {"no_watch", "watch_true"} THEN [raised |-> FALSE, value |-> TRUE]
    ELSE [raised |-> FALSE, value |-> FALSE]

\* detect_watch_mode: AutheliaConfigParser(path).is_watch_mode_enabled().
\* load_config is called outside the try block, and Path.exists() outside
\* load_config's, so an error of exists() leaves detect_watch_mode as an
\* exception; every other failure is caught and gives False.
DetectWatchMode(config) ==
    IF config = "stat_error" THEN [raised |-> TRUE, value |-> FALSE]
    ELSE IF config \in {"missing", "unreadable", "parse_error"}     \* load_config() is False
         THEN [raised |-> FALSE, value |-> FALSE]
    ELSE IF config \in {"empty", "not_mapping"}                     \* .get raises, caught
         THEN [raised |-> FALSE, value |-> FALSE]
    ELSE IF config \in {"no_backend", "no_file", "no_watch", "watch_false"}
         THEN [raised |-> FALSE, value |-> FALSE]
    ELSE [raised |-> FALSE, value |-> TRUE]

\* faulty variant of the decision: watch mode is looked at before force_restart
ApplyBranchWatchFirst(forceRestart, config) ==
    IF DetectWatchMode(config).raised THEN "restart"
    ELSE IF DetectWatchMode(config).value THEN "wait"
    ELSE "restart"

\* apply_changes, lines 119-136: the branch taken. Detection runs only when
\* force_restart is unset; an exception of it leads to the restart branch.
ApplyBranch(forceRestart, config) ==
    IF forceRestart THEN "restart"
    ELSE IF DetectWatchMode(config).raised THEN "restart"
    ELSE IF DetectWatchMode(config).value THEN "wait"
    ELSE "restart"

\* the answers of one liveness request
PollResults ==
    { "up",             \* 200, JSON body with status UP, OK or healthy
      "unparsable",     \* 200, body that response.json() fails on
      "not_object",     \* 200, JSON body that is a list, a string, a number or
                        \* null: data.get raises AttributeError
      "other_status",   \* 200, JSON body with another status
      "http_error",     \* a status code other than 200
      "conn_error",     \* httpx.RequestError
      "exception" }     \* any other exception

\* the poll ends the loop with success: the status is recognised, or the
\* bare except around response.json() and data.get() has caught something
Healthy(result) == result \in {"up", "unparsable", "not_object"}

\* faulty variant of wait_for_watch_mode_reload: an unexpected error is not caught
WaitErrorEscapes == "raise"

\* wait_for_watch_mode_reload, lines 99-101: an unexpected error inside the
\* loop is caught and returned as (False, message)
WaitError == "return"

\* faulty variant of the deadline test: one more iteration is let through
TimedOutLate(elapsed, timeout) == elapsed > timeout + 1

\* restart.py lines 68-70 and 207-209: the deadline test of an iteration
TimedOut(elapsed, timeout) == elapsed > timeout

\* the clock at the next iteration: the request took `took` seconds, then
\* asyncio.sleep(poll_interval)
Advance(elapsed, took) == elapsed + took + PollInterval

\* the number of polls issued in this call (counted up to MaxTimeout + 1,
\* which the deadline test does not let a loop exceed)
CountPoll(n) == IF n <= MaxTimeout THEN n + 1 ELSE n

\* what the restart command can leave on stderr and on stdout (decoded)
StderrTexts == { <<>>, <<" ", "\n">>, <<"e", "r", "r", "\n">> }
StdoutTexts == { <<>>, <<" ", "\n">>, <<" ", "o", "u", "t">> }

NoCommand == [exit |-> "none", stderr |-> <<>>, stdout |-> <<>>]

\* faulty variant of the error detail: stdout is looked at first
ErrorMsgStdoutFirst(stderr, stdout) ==
    IF Strip(stdout) # <<>> THEN Strip(stdout) ELSE Strip(stderr)

\* restart_authelia, line 167: stderr.decode().strip() or stdout.decode().strip()
ErrorMsg(stderr, stdout) ==
    IF Strip(stderr) # <<>> THEN Strip(stderr) ELSE Strip(stdout)

PropIdle ==
    [pc |-> "idle", force |-> FALSE, config |-> "missing",
     healthTimeout |-> 0, watchTimeout |-> 0,
     branch |-> "none", restartRuns |-> 0, polls |-> 0, elapsed |-> 0,
     lastPoll |-> "none", command |-> NoCommand, errorMsg |-> <<>>,
     succeeded |-> FALSE, detail |-> "none"]

InitProp == prop = PropIdle

\* restart_authelia begins: the restart command is about to run
EnterRestart(p) == [p EXCEPT !.pc = "restart_cmd"]

\* the call returns (succeeded, message)
Finish(p, succeeded, detail) ==
    [p EXCEPT !.pc = "done", !.succeeded = succeeded, !.detail = detail]

\* apply_changes is called: the decision
ApplyChanges(forceRestart, config, healthTimeout, watchTimeout) ==
    /\ prop.pc = "idle"
    /\ LET p == [PropIdle EXCEPT !.force = forceRestart, !.config = config,
                                 !.healthTimeout = healthTimeout,
                                 !.watchTimeout = watchTimeout,
                                 !.branch = ApplyBranch(forceRestart, config)]
       IN  prop' = IF p.branch = "wait" THEN [p EXCEPT !.pc = "grace"]
                   ELSE EnterRestart(p)
    /\ UNCHANGED <<storeVars, guard, route, calc, audit, handlers>>

\* wait_for_watch_mode_reload, lines 54-62: start_time is taken, then sleep(2)
WaitGrace ==
    /\ prop.pc = "grace"
    /\ prop' = [prop EXCEPT !.pc = "wait_poll", !.elapsed = GracePeriod]
    /\ UNCHANGED <<storeVars, guard, route, calc, audit, handlers>>

\* wait_for_watch_mode_reload, lines 67-101: one iteration of the loop
WaitPoll ==
    /\ prop.pc = "wait_poll"
    /\ \/ /\ TimedOut(prop.elapsed, prop.watchTimeout)
          /\ prop' = Finish(prop, FALSE, "watch_timeout")
       \/ /\ ~TimedOut(prop.elapsed, prop.watchTimeout)
          /\ \E result \in PollResults, took \in 0..MaxPollSeconds :
               LET p == [prop EXCEPT !.polls = CountPoll(@), !.lastPoll = result]
               IN  prop' =
                     IF Healthy(result) THEN Finish(p, TRUE, "reloaded")
                     ELSE IF result = "exception"
                     THEN (IF WaitError = "return"
                           THEN Finish(p, FALSE, "watch_error")
                           ELSE EnterRestart(p))          \* apply_changes, lines 134-136
                     ELSE [p EXCEPT !.elapsed = Advance(@, took)]
    /\ UNCHANGED <<storeVars, guard, route, calc, audit, handlers>>

\* restart_authelia, lines 154-171 and 182-186: the restart command runs
RestartCommand ==
    /\ prop.pc = "restart_cmd"
    /\ \E exit \in {"zero", "nonzero", "spawn_error"},
          stderr \in StderrTexts, stdout \in StdoutTexts :
         LET p == [prop EXCEPT !.restartRuns = @ + 1,
                               \* the streams are read on a non-zero exit only
                               !.command = IF exit = "nonzero"
                                           THEN [exit |-> exit, stderr |-> stderr,
                                                 stdout |-> stdout]
                                           ELSE [NoCommand EXCEPT !.exit = exit]]
         IN  prop' =
               IF exit = "zero" THEN [p EXCEPT !.pc = "health_poll", !.elapsed = 0]
               ELSE IF exit = "nonzero"
                    THEN Finish([p EXCEPT !.errorMsg = ErrorMsg(stderr, stdout)],
                                FALSE, "restart_failed")
               ELSE Finish(p, FALSE, "restart_error")
    /\ UNCHANGED <<storeVars, guard, route, calc, audit, handlers>>

\* poll_health, lines 206-239: one iteration of the loop, and what
\* restart_authelia (lines 174-186) makes of its end
HealthPoll ==
    /\ prop.pc = "health_poll"
    /\ \/ /\ TimedOut(prop.elapsed, prop.healthTimeout)
          /\ prop' = Finish(prop, FALSE, "health_timeout")
       \/ /\ ~TimedOut(prop.elapsed, prop.healthTimeout)
          /\ \E result \in PollResults, took \in 0..MaxPollSeconds :
               LET p == [prop EXCEPT !.polls = CountPoll(@), !.lastPoll = result]
               IN  prop' =
                     IF Healthy(result) THEN Finish(p, TRUE, "restarted")
                     ELSE IF result = "exception" THEN Finish(p, FALSE, "restart_error")
                     ELSE [p EXCEPT !.elapsed = Advance(@, took)]
    /\ UNCHANGED <<storeVars, guard, route, calc, audit, handlers>>

\* the caller has taken the outcome
PropReturn ==
    /\ prop.pc = "done"
    /\ prop' = PropIdle
    /\ UNCHANGED <<storeVars, guard, route, calc, audit, handlers>>

NextProp ==
    \/ \E f \in BOOLEAN, c \in ConfigFiles, ht \in 1..MaxTimeout, wt \in 0..MaxTimeout :
          ApplyChanges(f, c, ht, wt)
    \/ WaitGrace
    \/ WaitPoll
    \/ RestartCommand
    \/ HealthPoll
    \/ PropReturn

----------------------------------------------------------------------------
(* Route handlers (app.py): create_user and delete_user. *)

\* audit.py, log_create_user and log_delete_user: the row that is inserted
AuditRow(kind, username) ==
    [action |-> IF kind = "add" THEN "CREATE" ELSE "DELETE", target |-> username]

InitAudit == audit = <<>>

NoAdvice == [success |-> FALSE, detail |-> "none"]

RouteIdle == [pc |-> "idle", kind |-> "none", user |-> <<>>, email |-> <<>>,
              groups |-> <<>>, status |-> 0, success |-> FALSE,
              restartStatus |-> NoAdvice,
              \* what the request has done so far: returns of apply_changes,
              \* runs of the restart command, and `calls` when it came in
              applies |-> 0, restartRuns |-> 0, callsBefore |-> 0]

InitRoute == route = RouteIdle

\* a JSONResponse with an error and the given status code
RouteError(r, status) ==
    [r EXCEPT !.pc = "responded", !.status = status, !.success = FALSE,
              !.restartStatus = NoAdvice]

\* faulty variant of the answer: a failed propagation fails the request
RouteAnswerStrict(r, succeeded, detail) ==
    [r EXCEPT !.pc = "responded",
              !.status = IF succeeded THEN 200 ELSE 500,
              !.success = succeeded,
              !.restartStatus = [success |-> succeeded, detail |-> detail]]

\* faulty variant of the answer: a failed propagation is tried again
RouteAnswerRetry(r, succeeded, detail) ==
    IF succeeded
    THEN [r EXCEPT !.pc = "responded", !.status = 200, !.success = TRUE,
                   !.restartStatus = [success |-> succeeded, detail |-> detail]]
    ELSE IF r.applies < 2 THEN [r EXCEPT !.pc = "apply"]
    ELSE [r EXCEPT !.pc = "responded", !.status = 200, !.success = TRUE,
                   !.restartStatus = [success |-> succeeded, detail |-> detail]]

\* create_user, lines 258-272, and delete_user, lines 324-331: the answer
\* after apply_changes has returned (restart_success, restart_message)
RouteAnswer(r, succeeded, detail) ==
    [r EXCEPT !.pc = "responded", !.status = 200, !.success = TRUE,
              !.restartStatus = [success |-> succeeded, detail |-> detail]]

\* the status code for a ValueError or another exception of the store call
StoreErrorStatus(kind, outcome) ==
    IF outcome = "ioerror" THEN 500
    ELSE IF kind = "add" THEN 409
    ELSE IF outcome = "lastadmin" THEN 409
    ELSE 404

\* the form fields of POST /users
RouteForms ==
    { [username |-> Amy, email |-> EmailAUpper, passwordLen |-> 0,  groups |-> GroupsRaw],
      [username |-> <<" ", "B", "o", "b">>,
                           email |-> EmailB,      passwordLen |-> 12, groups |-> GroupsAdmin],
      [username |-> Bob, email |-> EmailNoDot,  passwordLen |-> 12, groups |-> GroupsNone],
      [username |-> Amy, email |-> EmailA,      passwordLen |-> 5,  groups |-> GroupsNone] }

\* the configurations of the propagator the route handlers run with
RouteConfigs == {"watch_true", "watch_false"}

\* create_user, lines 189-228: form parsing, generated password, validation
RouteCreateUser(form) ==
    /\ route.pc = "idle" /\ pc = "idle" /\ prop.pc = "idle"
    /\ calls < MaxCalls
    /\ LET v == ValidateCreateUserRequest(
                  [username    |-> Strip(form.username),
                   email       |-> Strip(form.email),
                   displayname |-> DisplayName,
                   passwordLen |-> IF form.passwordLen = 0 THEN 16
                                   ELSE form.passwordLen,
                   groups      |-> form.groups])
       IN  route' = IF ~v.ok
                    THEN RouteError([RouteIdle EXCEPT !.kind = "add",
                                                      !.callsBefore = calls], 400)
                    ELSE [RouteIdle EXCEPT !.pc = "store_call", !.kind = "add",
                                           !.user = v.username, !.email = v.email,
                                           !.groups = v.groups,
                                           !.callsBefore = calls]
    /\ lastResult' = NoResult
    /\ UNCHANGED <<storeFile, tempFile, backups, now, pc, op, calls, saves,
                   readerSaw, prop, guard, calc, audit, handlers>>

\* delete_user, line 297: the username is the path parameter as it is
RouteDeleteUser(username) ==
    /\ route.pc = "idle" /\ pc = "idle" /\ prop.pc = "idle"
    /\ calls < MaxCalls
    /\ route' = [RouteIdle EXCEPT !.pc = "store_call", !.kind = "delete",
                                  !.user = username, !.callsBefore = calls]
    /\ lastResult' = NoResult
    /\ UNCHANGED <<storeFile, tempFile, backups, now, pc, op, calls, saves,
                   readerSaw, prop, guard, calc, audit, handlers>>

\* create_user, lines 230-237: users_handler.add_user with the bcrypt hash
RouteAddUser ==
    /\ route.pc = "store_call" /\ route.kind = "add"
    /\ lastResult = NoResult
    /\ AddUser(route.user, route.email, DisplayName, HashOk, route.groups)

\* delete_user, line 300: users_handler.delete_user
RouteCallDelete ==
    /\ route.pc = "store_call" /\ route.kind = "delete"
    /\ lastResult = NoResult
    /\ DeleteUser(route.user)

\* the store call has returned or raised: lines 238-252 and 301-318
RouteStoreReturned ==
    /\ route.pc = "store_call" /\ pc = "idle"
    /\ lastResult # NoResult
    /\ route' = IF lastResult.outcome = "ok" THEN [route EXCEPT !.pc = "apply"]
                ELSE RouteError(route, StoreErrorStatus(route.kind, lastResult.outcome))
    \* lines 245-252 and 314-318: the audit row of a mutation that was written;
    \* _log_event keeps an sqlite3.Error to itself
    /\ \/ /\ lastResult.outcome = "ok"
          /\ audit' = Append(audit, AuditRow(route.kind, route.user))
       \/ UNCHANGED audit
    /\ UNCHANGED <<storeVars, prop, guard, calc, handlers>>

\* create_user, line 256, and delete_user, line 322: apply_changes is called
RouteApplyChanges ==
    /\ route.pc = "apply"
    /\ \E f \in BOOLEAN, c \in RouteConfigs :
          ApplyChanges(f, c, MaxTimeout, MaxTimeout)

\* apply_changes has returned: the answer is built and sent
RouteRespond ==
    /\ route.pc = "apply" /\ prop.pc = "done"
    /\ route' = RouteAnswer([route EXCEPT !.applies = @ + 1,
                                          !.restartRuns = @ + prop.restartRuns],
                            prop.succeeded, prop.detail)
    /\ prop' = PropIdle
    /\ UNCHANGED <<storeVars, guard, calc, audit, handlers>>

\* the request is over
RouteDone ==
    /\ route.pc = "responded"
    /\ route' = RouteIdle
    /\ UNCHANGED <<storeVars, prop, guard, calc, audit, handlers>>

NextRoute ==
    \/ \E form \in RouteForms : RouteCreateUser(form)
    \/ \E username \in Usernames : RouteDeleteUser(username)
    \/ RouteAddUser
    \/ RouteCallDelete
    \/ SaveBackup
    \/ SaveMkstemp
    \/ SaveWrite
    \/ SaveFsync
    \/ SaveReplace
    \/ SavePrune
    \/ RouteStoreReturned
    \/ RouteApplyChanges
    \/ WaitGrace
    \/ WaitPoll
    \/ RestartCommand
    \/ HealthPoll
    \/ RouteRespond
    \/ RouteDone

----------------------------------------------------------------------------
(* The application: the middleware in front of the route handlers. *)

\* the requests sent to /users (POST /users, DELETE /users/{username}, GET)
AppRequests ==
    [method : {"GET", "POST", "DELETE"}, path : {"/users"},
     groups : {HdrUsers, HdrAdmin},
     session : {NoToken, Token("s", TRUE, 0), Token("s", TRUE, SessionTtlMinutes * 60 + 1)},
     csrfCookie : {NoToken, Token("t1", TRUE, 0)},
     csrfHeader : {NoToken, Token("t1", TRUE, 0), Token("t2", TRUE, 0)},
     formBody : {FALSE}, csrfField : {NoToken}]

\* a request arrives while no other is being handled
AppReceive ==
    /\ route.pc = "idle" /\ pc = "idle" /\ prop.pc = "idle"
    /\ \E request \in AppRequests : GuardReceive(request)

\* dispatch, lines 49-82: the middleware answers the request itself
AppReject ==
    /\ ~Dispatch(guard.request).handler
    /\ GuardDispatch

\* dispatch, line 85: call_next(request)
AppCallNext ==
    /\ guard.phase = "received"
    /\ Dispatch(guard.request).handler
    /\ guard' = [guard EXCEPT !.phase = "handler"]
    /\ UNCHANGED <<storeVars, prop, route, calc, audit, handlers>>

\* the router runs create_user for POST /users
AppCreateUser ==
    /\ guard.phase = "handler" /\ guard.request.method = "POST"
    /\ \E form \in RouteForms : RouteCreateUser(form)

\* the router runs delete_user for DELETE /users/{username}
AppDeleteUser ==
    /\ guard.phase = "handler" /\ guard.request.method = "DELETE"
    /\ \E username \in Usernames : RouteDeleteUser(username)

\* dispatch, lines 85-98: the response of the route handler comes back, gets
\* the headers and the cookies, and leaves. A GET is answered by a handler
\* that changes nothing.
AppRespond ==
    /\ guard.phase = "handler"
    /\ \/ route.pc = "responded"
       \/ guard.request.method = "GET" /\ route.pc = "idle"
    /\ guard' = [guard EXCEPT !.phase = "responded",
                              !.response = Dispatch(guard.request)]
    /\ route' = RouteIdle
    /\ UNCHANGED <<storeVars, prop, calc, audit, handlers>>

NextApp ==
    \/ AppReceive
    \/ AppReject
    \/ AppCallNext
    \/ AppCreateUser
    \/ AppDeleteUser
    \/ RouteAddUser
    \/ RouteCallDelete
    \/ SaveBackup
    \/ SaveMkstemp
    \/ SaveWrite
    \/ SaveFsync
    \/ SaveReplace
    \/ SavePrune
    \/ RouteStoreReturned
    \/ RouteApplyChanges
    \/ WaitGrace
    \/ WaitPoll
    \/ RestartCommand
    \/ HealthPoll
    \/ RouteRespond
    \/ AppRespond
    \/ GuardDone

----------------------------------------------------------------------------
(* Validators applied to one input (models.py). *)

CalcIdle == [fn |-> "none", done |-> FALSE, input |-> <<>>, output |-> <<>>]

InitCalc == calc = CalcIdle

MaxNameLen == 3      \* candidate usernames are all strings up to this length

\* the characters candidate usernames are made of
NameChars == {"a", "Z", "1", ".", "_", "-", " ", "!"}

\* candidate usernames: every short string, and strings around the upper limit
NameCandidates ==
    UNION { [1..n -> NameChars] : n \in 0..MaxNameLen }
      \cup { Pad(32, "a"), Pad(33, "a"), Pad(31, "a") \o <<".">>,
             <<"a", "b", "c", "\n">> }

InitCalcUsername ==
    \E v \in NameCandidates :
        calc = [fn |-> "username", done |-> FALSE, input |-> v, output |-> <<>>]

\* CreateUserRequest(username=v, ...) and UsersFile(users={v: ...}) on the
\* candidate: whether each accepts it
CheckUsername ==
    /\ calc.fn = "username" /\ ~calc.done
    /\ calc' = [calc EXCEPT !.done = TRUE,
                            !.output = [request |-> ValidateUsername(calc.input).ok,
                                        value   |-> ValidateUsername(calc.input).value,
                                        fileKey |-> UsernamePatternMatch(calc.input)]]
    /\ UNCHANGED <<storeVars, prop, guard, route, audit, handlers>>

MaxGroups == 3       \* candidate group lists have up to this many entries

\* the entries candidate group lists are made of
GroupEntries ==
    { <<>>, <<" ">>, <<"a">>, <<"A">>, <<" ", "a">>, <<"a", " ">>,
      <<"b">>, <<"a", " ", "B">> }

GroupCandidates == UNION { [1..n -> GroupEntries] : n \in 0..MaxGroups }

InitCalcGroups ==
    \E v \in GroupCandidates :
        calc = [fn |-> "groups", done |-> FALSE, input |-> v, output |-> <<>>]

\* UserConfig.validate_groups and CreateUserRequest.validate_groups on the
\* candidate, and UserConfig.validate_groups once more on its own result
CheckGroups ==
    /\ calc.fn = "groups" /\ ~calc.done
    /\ calc' = [calc EXCEPT !.done = TRUE,
                            !.output = [config  |-> NormalizeGroups(calc.input),
                                        request |-> RequestGroups(calc.input),
                                        again   |-> NormalizeGroups(NormalizeGroups(calc.input))]]
    /\ UNCHANGED <<storeVars, prop, guard, route, audit, handlers>>

----------------------------------------------------------------------------
(* Two requests handled concurrently by the event loop of one process. *)

Handlers == {1, 2}

Cat == <<"c", "a", "t">>

HandlerIdle == [pc |-> "idle", kind |-> "none", user |-> <<>>,
                loaded |-> NoUsers, outcome |-> "none"]

InitHandlers == handlers = [h \in Handlers |-> HandlerIdle]

\* the store the two requests find: none, or one with two admins
TwoAdmins ==
    Document("mapping", (Amy :> RecAdmin) @@
                        (Bob :> [RecAdmin EXCEPT !.email = EmailB]))

InitConcurrent ==
    /\ storeFile \in {NoFile, TwoAdmins}
    /\ tempFile = NoFile
    /\ backups = {}
    /\ now = 0
    /\ pc = "idle"
    /\ op = NoOp
    /\ lastResult = NoResult
    /\ calls = 0
    /\ saves = 0
    /\ readerSaw = NotRead
    /\ InitProp /\ InitGuard /\ InitRoute /\ InitCalc /\ InitAudit /\ InitHandlers

\* faulty variant: the store call has a suspension point between load and save
StoreCallYieldsAfterLoad == TRUE

\* users_io.py, add_user (171-186) and delete_user (203-226): plain functions
\* without an await, called from the coroutine of the route handler; the
\* event loop runs no other request between their load and their save
StoreCallYields == FALSE

\* the event loop can run a step of request h
CanRun(h) ==
    StoreCallYields \/ \A g \in Handlers \ {h} : handlers[g].pc # "loaded"

\* a request for create_user or delete_user has passed the middleware and
\* the handler's first awaits
HRequest(h, kind, username) ==
    /\ CanRun(h)
    /\ handlers[h].pc = "idle"
    /\ handlers' = [handlers EXCEPT ![h] = [HandlerIdle EXCEPT !.pc = "ready",
                                                              !.kind = kind,
                                                              !.user = username]]
    /\ UNCHANGED <<storeVars, prop, guard, route, calc, audit>>

\* add_user, line 171, and delete_user, line 203: load_users
HLoad(h) ==
    /\ CanRun(h)
    /\ handlers[h].pc = "ready"
    /\ LET ld == LoadUsers(storeFile)
       IN  handlers' = [handlers EXCEPT ![h] =
                          IF ld.ok THEN [@ EXCEPT !.pc = "loaded", !.loaded = ld.users]
                          ELSE [@ EXCEPT !.pc = "stored", !.outcome = "loaderror"]]
    /\ UNCHANGED <<storeVars, prop, guard, route, calc, audit>>

\* the rest of the call: the checks on the loaded snapshot, then save_users
\* as a whole (backup, temp file, os.replace, prune), which can fail
HSave(h) ==
    /\ CanRun(h)
    /\ handlers[h].pc = "loaded"
    /\ LET r     == handlers[h]
           users == r.loaded
           v     == ValidateUserConfig([password |-> HashOk, displayname |-> DisplayName,
                                        email |-> EmailA, groups |-> GroupsAdmin])
           refused ==
               IF r.kind = "add"
               THEN (IF UserExists(users, r.user) THEN "exists"
                     ELSE IF ~v.ok THEN "invalid" ELSE "none")
               ELSE (IF r.user \notin DOMAIN users THEN "notfound"
                     ELSE IF LastAdminBlocked(users, r.user) THEN "lastadmin"
                     ELSE "none")
           pending == IF r.kind = "add" THEN Insert(users, r.user, v.rec)
                      ELSE Remove(users, r.user)
           copied == IF storeFile.exists THEN CreateBackup(backups, storeFile, now)
                     ELSE backups
       IN  \/ /\ refused # "none"
              /\ handlers' = [handlers EXCEPT ![h] =
                                 [@ EXCEPT !.pc = "stored", !.outcome = refused]]
              /\ UNCHANGED <<storeFile, backups, calls, saves>>
           \/ /\ refused = "none"               \* save_users returns
              /\ calls < MaxCalls
              /\ storeFile' = File(DumpUsers(pending), FALSE, calls + 1)
              /\ backups' \in PruneBackups(copied, BackupKeep)
              /\ calls' = calls + 1
              /\ saves' = IF saves <= BackupKeep THEN saves + 1 ELSE saves
              /\ handlers' = [handlers EXCEPT ![h] =
                                 [@ EXCEPT !.pc = "stored", !.outcome = "ok"]]
           \/ /\ refused = "none"               \* save_users raises IOError
              /\ calls < MaxCalls
              /\ backups' \in {backups, copied}
              /\ calls' = calls + 1
              /\ handlers' = [handlers EXCEPT ![h] =
                                 [@ EXCEPT !.pc = "stored", !.outcome = "ioerror"]]
              /\ UNCHANGED <<storeFile, saves>>
    /\ UNCHANGED <<tempFile, now, pc, op, lastResult, readerSaw>>
    /\ UNCHANGED <<prop, guard, route, calc, audit>>

\* the handler goes on after the store call: audit row, await apply_changes,
\* and the answer
HRespond(h) ==
    /\ CanRun(h)
    /\ handlers[h].pc = "stored"
    /\ handlers' = [handlers EXCEPT ![h] = [@ EXCEPT !.pc = "done"]]
    /\ \/ /\ handlers[h].outcome = "ok"
          /\ audit' = Append(audit, AuditRow(handlers[h].kind, handlers[h].user))
       \/ UNCHANGED audit
    /\ UNCHANGED <<storeVars, prop, guard, route, calc>>

NextConcurrent ==
    \/ \E h \in Handlers, username \in Usernames \cup {Cat} : HRequest(h, "add", username)
    \/ \E h \in Handlers, username \in Usernames : HRequest(h, "delete", username)
    \/ \E h \in Handlers : HLoad(h)
    \/ \E h \in Handlers : HSave(h)
    \/ \E h \in Handlers : HRespond(h)

----------------------------------------------------------------------------
(* Specifications. *)

Init == InitStore /\ InitProp /\ InitGuard /\ InitRoute /\ InitCalc /\ InitAudit /\ InitHandlers

\* a request is at the middleware: the state SpecGuard starts from
InitRequest ==
    /\ InitStore /\ InitProp /\ InitRoute /\ InitCalc /\ InitAudit /\ InitHandlers
    /\ \E request \in Requests :
          guard = [phase |-> "received", request |-> request, response |-> Rejection(0)]

Next == NextStore \/ NextProp \/ NextGuard \/ NextRoute

Spec == Init /\ [][Next]_vars

\* the store writer alone
SpecStore == Init /\ [][NextStore]_vars

\* the change propagator alone
SpecProp == Init /\ [][NextProp]_vars

\* the same, with the event loop going on with a coroutine that can go on
SpecPropLive ==
    /\ SpecProp
    /\ WF_vars(WaitGrace) /\ WF_vars(WaitPoll)
    /\ WF_vars(RestartCommand) /\ WF_vars(HealthPoll)

\* the create and delete routes: store call, then propagation, then answer
SpecRoute == Init /\ [][NextRoute]_vars

\* the application: requests pass the middleware before a route handler runs
SpecApp == Init /\ [][NextApp]_vars

\* two requests handled concurrently by one event loop
SpecConcurrent == InitConcurrent /\ [][NextConcurrent]_vars

\* the store writer on the files of StoreDocuments
InitDocuments ==
    InitStoreDocuments /\ InitProp /\ InitGuard /\ InitRoute /\ InitCalc /\ InitAudit /\ InitHandlers

SpecDocuments == InitDocuments /\ [][NextDocuments]_vars

\* the group validators applied to every candidate of GroupCandidates
InitGroups ==
    InitStore /\ InitProp /\ InitGuard /\ InitRoute /\ InitCalcGroups /\ InitAudit /\ InitHandlers

SpecGroups == InitGroups /\ [][CheckGroups]_vars

\* the username validators applied to every candidate of NameCandidates
InitUsername ==
    InitStore /\ InitProp /\ InitGuard /\ InitRoute /\ InitCalcUsername /\ InitAudit /\ InitHandlers

SpecUsername == InitUsername /\ [][CheckUsername]_vars

\* the middleware applied to every request of Requests
SpecGuard == InitRequest /\ [][GuardDispatch]_vars

----------------------------------------------------------------------------
(* Claims about the store writer, checked under SpecStore. *)

\* the snapshot load_users returns for the store file as it is
Snapshot == LoadUsers(storeFile).users
SnapshotNext == LoadUsers(storeFile').users

\* a step in which the running save_users ends before its rename has happened
SaveFails == pc \in {"backup", "mkstemp", "write", "fsync", "replace"} /\ pc' = "idle"

\* C1: when save_users fails at any step (backup copy, temp file creation or
\* write, fsync, rename), the caller gets an IOError, the store file is
\* identical to its pre-write content, no temp file is left, and load_users
\* returns the pre-write snapshot.
C1_FailedSaveLeavesStore ==
    [][SaveFails =>
          /\ lastResult'.outcome = "ioerror"
          /\ storeFile' = op.pre
          /\ tempFile' = NoFile
          /\ LoadUsers(storeFile') = LoadUsers(op.pre)]_vars

\* a save on an existing store file has failed after its backup copy was taken
C1_Witness ==
    /\ pc = "idle"
    /\ lastResult.outcome = "ioerror"
    /\ storeFile.exists
    /\ \E b \in backups : b.file = storeFile

\* C2: delete_user(u) of an existing record u: when u holds the admin group
\* and is its only holder, the call fails with the last-admin error and writes
\* nothing; otherwise (two or more holders, or u is no holder) the call is not
\* refused, goes on to save the snapshot without exactly u, and, when that save
\* does not fail with an I/O error, the store holds the snapshot without u.
C2_DeleteLastAdmin ==
    [][/\ \A u \in Usernames :
            (DeleteUser(u) /\ u \in DOMAIN Snapshot) =>
                IF u \in Admins(Snapshot) /\ Cardinality(Admins(Snapshot)) = 1
                THEN /\ lastResult' = [kind |-> "delete", user |-> u,
                                       outcome |-> "lastadmin"]
                     /\ pc' = "idle"
                     /\ UNCHANGED <<storeFile, tempFile, backups>>
                ELSE /\ pc' = "backup"
                     /\ op'.kind = "delete" /\ op'.user = u
                     /\ DOMAIN op'.pending = DOMAIN Snapshot \ {u}
                     /\ \A k \in DOMAIN op'.pending : op'.pending[k] = Snapshot[k]
       /\ (pc = "prune" /\ pc' = "idle" /\ op.kind = "delete") =>
            /\ lastResult' = [kind |-> "delete", user |-> op.user, outcome |-> "ok"]
            /\ DOMAIN SnapshotNext = DOMAIN LoadUsers(op.pre).users \ {op.user}
            /\ \A k \in DOMAIN SnapshotNext :
                  SnapshotNext[k] = LoadUsers(op.pre).users[k]]_vars

\* the sole admin could not be deleted, and a second record exists
C2_Witness ==
    /\ pc = "idle"
    /\ lastResult.kind = "delete" /\ lastResult.outcome = "lastadmin"
    /\ Admins(Snapshot) = {lastResult.user}
    /\ Cardinality(DOMAIN Snapshot) = 2

\* C3: once the store holds a record with the admin group, it holds one after
\* every step of every add_user and delete_user call of the single writer.
C3_AdminRemains ==
    [][Admins(Snapshot) # {} => Admins(SnapshotNext) # {}]_vars

\* one of two admins has been deleted; the other remains
C3_Witness ==
    /\ pc = "idle"
    /\ lastResult.kind = "delete" /\ lastResult.outcome = "ok"
    /\ Cardinality(Admins(Snapshot)) = 1

\* C4 (as claimed): no two records of the store share a username, and no two
\* share an email compared case-insensitively.
C4_NoDuplicateEmail ==
    \A k1 \in DOMAIN Snapshot : \A k2 \in DOMAIN Snapshot :
        k1 # k2 => /\ Lower(k1) # Lower(k2)
                   /\ Lower(Snapshot[k1].email) # Lower(Snapshot[k2].email)

\* C5 (as claimed): after N successful save_users calls with backups enabled
\* and backup_keep = K < N, exactly K backups remain.
C5_ExactlyKeepBackups ==
    (pc = "idle" /\ saves > BackupKeep) => Cardinality(backups) = BackupKeep

\* C6: a load_users made while a save_users is running returns the pre-write
\* snapshot or the snapshot being saved, never a partial document.
C6_ReaderSeesOldOrNew ==
    readerSaw.read =>
        /\ ~readerSaw.partial
        /\ \/ readerSaw.users = LoadUsers(op.pre).users
           \/ readerSaw.users = op.pending

\* a reader has loaded the store while the temp file held an unfinished document
C6_Witness ==
    /\ readerSaw.read
    /\ pc = "write"
    /\ tempFile.exists /\ tempFile.torn

\* C18: an add_user whose username exists or whose fields are invalid, and a
\* delete_user whose username is unknown or is the last admin, ends with its
\* error at once and writes nothing: the store file, the temp file and the
\* backups are as before the call.
C18_RejectedCallWritesNothing ==
    [][/\ \A u \in Usernames : \A a \in AddArgs :
            (/\ AddUser(u, a.email, DisplayName, a.password, a.groups)
             /\ \/ u \in DOMAIN Snapshot
                \/ ~ValidateUserConfig([password |-> a.password, displayname |-> DisplayName,
                                        email |-> a.email, groups |-> a.groups]).ok)
            => /\ pc' = "idle"
               /\ lastResult'.kind = "add" /\ lastResult'.user = u
               /\ lastResult'.outcome \in {"exists", "invalid"}
               /\ UNCHANGED <<storeFile, tempFile, backups>>
       /\ \A u \in Usernames :
            (/\ DeleteUser(u)
             /\ \/ u \notin DOMAIN Snapshot
                \/ Admins(Snapshot) = {u})
            => /\ pc' = "idle"
               /\ lastResult'.kind = "delete" /\ lastResult'.user = u
               /\ lastResult'.outcome \in {"notfound", "lastadmin"}
               /\ UNCHANGED <<storeFile, tempFile, backups>>]_vars

\* an add_user of an existing username was rejected on a store with a backup
C18_Witness ==
    /\ pc = "idle"
    /\ lastResult.kind = "add" /\ lastResult.outcome = "exists"
    /\ lastResult.user \in DOMAIN Snapshot
    /\ backups # {}

\* the save returns without error, on a store file that existed before it
C29_SaveReturns == pc = "prune" /\ pc' = "idle" /\ op.pre.exists

\* right after a successful save the backups hold the pre-save store file
C29_BackupOfPreSave ==
    C29_SaveReturns => \E b \in backups' : b.file = op.pre

\* no backup name changes its content
C29_BackupNotReplaced ==
    \A b \in backups : \A c \in backups' : c.name = b.name => c.file = b.file

\* C29: right after a successful save_users with backups enabled on an
\* existing store file, the backup directory holds an artifact equal to the
\* store file before that save (pruning with a retention count of at least 1
\* never removes the backup just taken), and a backup taken by an earlier save
\* is never replaced by a copy of different content under the same name.
C29_BackupKept ==
    [][C29_BackupOfPreSave /\ C29_BackupNotReplaced]_vars

----------------------------------------------------------------------------
(* Claims about the change propagator, checked under SpecProp. *)

\* C7: for (forceRestart, watchModeEnabled), only (false, true) selects the
\* wait-for-reload branch; (true, true), (true, false) and (false, false)
\* select the restart branch.
C7_DecisionTable ==
    (prop.pc # "idle" /\ prop.config \in {"watch_true", "watch_false"}) =>
        /\ prop.branch \in {"wait", "restart"}
        /\ prop.branch = "wait" <=> (~prop.force /\ prop.config = "watch_true")

\* force-restart set and watch mode enabled: the restart command is about to run
C7_Witness ==
    /\ prop.force /\ prop.config = "watch_true"
    /\ prop.branch = "restart" /\ prop.pc = "restart_cmd"

\* C8: with force-restart unset and watch mode detected, apply_changes runs
\* the wait-for-reload path and never the restart command, whether that path
\* ends in success, in a timeout or in an error.
C8_WaitNeverRestarts ==
    (prop.pc # "idle" /\ ~prop.force /\ prop.config = "watch_true") =>
        /\ prop.pc \in {"grace", "wait_poll", "done"}
        /\ prop.restartRuns = 0
        /\ prop.pc = "done" => prop.detail \in {"reloaded", "watch_timeout", "watch_error"}

\* the wait-for-reload path has ended with an unexpected error of a poll
C8_Witness ==
    /\ ~prop.force /\ prop.config = "watch_true"
    /\ prop.pc = "done" /\ prop.detail = "watch_error" /\ prop.polls > 0

----------------------------------------------------------------------------
(* Claims about the access guard, checked under SpecGuard. *)

\* the request carries a session cookie that is expired or malformed
SessionCookieRejected ==
    /\ guard.request.session.present
    /\ \/ ~guard.request.session.signed
       \/ guard.request.session.age > SessionTtlMinutes * 60

\* a state-changing request on a non-exempt path has been answered
AnsweredModifying ==
    /\ guard.phase = "responded"
    /\ guard.request.method \in {"POST", "PUT", "PATCH", "DELETE"}
    /\ guard.request.path \notin {"/health", "/watch-mode-status"}

\* C9 (as claimed): every state-changing request on a non-exempt path whose
\* forwarded-groups header is absent, empty or without the admin group is
\* answered 403, whatever its CSRF cookie and token are.
C9_AlwaysForbidden ==
    (AnsweredModifying /\ guard.request.groups \in HeadersWithoutAdmin) =>
        guard.response.status = 403

\* C9 (amended): such a request never reaches the handler, whatever its CSRF
\* cookie and token are; it is answered 403 when its session cookie is absent
\* or valid or its path is "/", and 401 when it carries an expired or
\* malformed session cookie on another path.
C9_ForbiddenAfterSession ==
    (AnsweredModifying /\ guard.request.groups \in HeadersWithoutAdmin) =>
        /\ ~guard.response.handler
        /\ guard.response.status =
              IF SessionCookieRejected /\ guard.request.path # "/" THEN 401 ELSE 403

\* a request without the admin group but with a valid CSRF pair was answered 403
C9_Witness ==
    /\ AnsweredModifying
    /\ guard.request.groups = HdrUsers
    /\ guard.request.csrfCookie = Token("t1", TRUE, 0)
    /\ guard.request.csrfHeader = Token("t1", TRUE, 0)
    /\ guard.response.status = 403

\* the token the request submits: the X-CSRF-Token header, else the
\* csrf_token field of a form body
C10_Submitted ==
    IF guard.request.csrfHeader.present THEN guard.request.csrfHeader
    ELSE IF guard.request.formBody THEN guard.request.csrfField
    ELSE NoToken

\* cookie and submitted token are both there, validly signed, not older than
\* the max age, and carry the same payload
C10_PairValid ==
    /\ guard.request.csrfCookie.present /\ C10_Submitted.present
    /\ guard.request.csrfCookie.signed /\ C10_Submitted.signed
    /\ guard.request.csrfCookie.age <= CsrfMaxAge /\ C10_Submitted.age <= CsrfMaxAge
    /\ guard.request.csrfCookie.payload = C10_Submitted.payload

\* the same with both tokens strictly younger than the max age
C10_PairYounger ==
    /\ C10_PairValid
    /\ guard.request.csrfCookie.age < CsrfMaxAge /\ C10_Submitted.age < CsrfMaxAge

\* C10 (as claimed): a state-changing request on a non-exempt path with the
\* admin group reaches the handler only if cookie and submitted token are
\* validly signed, younger than the max age and equal, and without such a
\* pair it is answered with the CSRF outcome (400).
C10_AlwaysCsrfOutcome ==
    (AnsweredModifying /\ guard.request.groups \in HeadersWithAdmin) =>
        /\ guard.response.handler => C10_PairYounger
        /\ ~C10_PairValid => guard.response.status = 400

\* C10 (amended): such a request reaches the handler only if cookie and
\* submitted token are validly signed, not older than the max age and equal;
\* without such a pair it is answered 400 when its session cookie is absent or
\* valid or its path is "/", and 401 when it carries an expired or malformed
\* session cookie on another path.
C10_CsrfAfterSession ==
    (AnsweredModifying /\ guard.request.groups \in HeadersWithAdmin) =>
        /\ guard.response.handler => C10_PairValid
        /\ ~C10_PairValid =>
              guard.response.status =
                 IF SessionCookieRejected /\ guard.request.path # "/" THEN 401 ELSE 400

\* an admin's request whose header token differs from the cookie was answered 400
C10_Witness ==
    /\ AnsweredModifying
    /\ guard.request.groups = HdrMixed
    /\ guard.request.csrfCookie = Token("t1", TRUE, 0)
    /\ guard.request.csrfHeader = Token("t2", TRUE, 0)
    /\ guard.response.status = 400

----------------------------------------------------------------------------
(* Claims about the route handlers, checked under SpecRoute. *)

\* C11: once a create or delete is persisted, no step of the propagation
\* writes the store file, its temp file or the backups, and whatever the
\* propagation returns (restart error, health-check timeout, watch-mode
\* timeout included) the request is answered 200 with success = true, the
\* propagation outcome attached as restart_status, and the store still holds
\* the mutated content.
C11_PropagationAdvisory ==
    [][route.pc = "apply" =>
          /\ UNCHANGED <<storeFile, tempFile, backups>>
          /\ route'.pc = "responded" =>
                /\ route'.status = 200 /\ route'.success
                /\ route'.restartStatus =
                      [success |-> prop.succeeded, detail |-> prop.detail]
                /\ route.kind = "add" => route.user \in DOMAIN SnapshotNext
                /\ route.kind = "delete" => route.user \notin DOMAIN SnapshotNext]_vars

\* a created user is in the store and the request was answered as successful
\* although the health check after the restart timed out
C11_Witness ==
    /\ route.pc = "responded" /\ route.kind = "add"
    /\ route.status = 200 /\ route.success
    /\ ~route.restartStatus.success
    /\ route.restartStatus.detail = "health_timeout"
    /\ route.user \in DOMAIN Snapshot

----------------------------------------------------------------------------
(* Further claims about the access guard, checked under SpecGuard. *)

\* C12: a request with an expired (older than the TTL) or malformed session
\* cookie is answered 401 and does not reach the handler on every path but
\* "/" and "/health"; a request without a session cookie is never answered 401.
C12_SessionExpired ==
    guard.phase = "responded" =>
        /\ (SessionCookieRejected /\ guard.request.path \notin {"/", "/health"}) =>
              (guard.response.status = 401 /\ ~guard.response.handler)
        /\ ~guard.request.session.present => guard.response.status # 401

\* a GET of the status probe with a session cookie one second past the TTL
\* was answered 401
C12_Witness ==
    /\ guard.phase = "responded"
    /\ guard.request.method = "GET"
    /\ guard.request.path = "/watch-mode-status"
    /\ guard.request.session = Token("s", TRUE, SessionTtlMinutes * 60 + 1)
    /\ guard.response.status = 401

\* C13 (as claimed): every response to a request on a non-exempt path, the
\* 401, 403 and 400 rejections included, carries Content-Security-Policy,
\* X-Frame-Options, Referrer-Policy, Strict-Transport-Security and
\* X-Content-Type-Options.
C13_HeadersOnEveryResponse ==
    (guard.phase = "responded"
        /\ guard.request.path \notin {"/health", "/watch-mode-status"}) =>
        { "Content-Security-Policy", "X-Frame-Options", "Referrer-Policy",
          "Strict-Transport-Security", "X-Content-Type-Options" }
            \subseteq guard.response.headers

\* C14: a POST, PUT, PATCH or DELETE on a path other than "/health" and
\* "/watch-mode-status" reaches the handler only if it passed the group check
\* and the CSRF check; a GET, and a request of any method to one of the two
\* exempt paths, is never answered 403 or 400 by the middleware.
C14_ChecksOnlyOnModifying ==
    guard.phase = "responded" =>
        IF /\ guard.request.method \in {"POST", "PUT", "PATCH", "DELETE"}
           /\ guard.request.path \notin {"/health", "/watch-mode-status"}
        THEN guard.response.handler =>
                (guard.request.groups \in HeadersWithAdmin /\ C10_PairValid)
        ELSE /\ guard.response.status \notin {403, 400}
             /\ guard.response.handler \/ guard.response.status = 401

\* a DELETE of the status probe without groups, session or CSRF token reached
\* the handler
C14_Witness ==
    /\ guard.phase = "responded"
    /\ guard.request.method = "DELETE"
    /\ guard.request.path = "/watch-mode-status"
    /\ guard.request.groups = HdrAbsent
    /\ ~guard.request.csrfCookie.present
    /\ guard.response.handler

----------------------------------------------------------------------------
(* Claims about the validators. *)

\* the rule as claimed: after lowercasing, 2 to 32 characters out of a-z,
\* 0-9, '.', '_' and '-', no separator first or last
C15_Rule(v) ==
    LET n == Lower(v)
    IN  /\ Len(n) >= 2 /\ Len(n) <= 32
        /\ \A i \in DOMAIN n : n[i] \in Range(LowerAlpha) \cup Digits \cup {".", "_", "-"}
        /\ n[1] \notin {".", "_", "-"}
        /\ n[Len(n)] \notin {".", "_", "-"}

\* C15 (as claimed): a candidate username is accepted exactly when it meets
\* the rule (2-character names such as "aa" included), and a key of a loaded
\* store file is accepted by the same rule.
C15_UsernameRule ==
    (calc.fn = "username" /\ calc.done) =>
        /\ calc.output.request <=> C15_Rule(calc.input)
        /\ calc.output.fileKey <=> C15_Rule(calc.input)

----------------------------------------------------------------------------
(* Claims about files found in place, checked under SpecDocuments. *)

C17_Invalid(file) ==
    /\ file.exists
    /\ \/ file.top # "mapping"
       \/ \E k \in DOMAIN file.users :
             ~ValidateUserConfig(file.users[k]).ok \/ ~UsernamePatternMatch(k)

\* C17 (as claimed): the load_users of every add_user and delete_user call
\* returns the empty snapshot when the file is absent, and fails with a
\* format error (ValueError), so that the call ends there, when the file is
\* present but structurally invalid.
C17_LoadRejectsInvalid ==
    [][(pc = "idle" /\ (pc' # "idle" \/ lastResult' # lastResult)) =>
          /\ ~storeFile.exists =>
                LoadUsers(storeFile) = [ok |-> TRUE, users |-> NoUsers, error |-> "none"]
          /\ C17_Invalid(storeFile) =>
                /\ lastResult'.outcome = "loaderror" /\ pc' = "idle"
                /\ LoadUsers(storeFile).error = "ValueError"]_vars

----------------------------------------------------------------------------
(* Claims about the group validators, checked under SpecGroups. *)

\* the first place of the candidate list whose trimmed, lowercased entry is g
C19_FirstSeen(g) ==
    CHOOSE k \in DOMAIN calc.input :
        /\ Lower(Strip(calc.input[k])) = g
        /\ \A j \in DOMAIN calc.input : Lower(Strip(calc.input[j])) = g => k <= j

\* C19: the normalised list holds exactly the trimmed, lowercased, non-empty
\* entries of the given list, each once, in first-seen order; it holds no
\* duplicate, no empty string and no uppercase character; normalising it again
\* returns it unchanged; both validators agree.
C19_GroupNormalization ==
    (calc.fn = "groups" /\ calc.done) =>
        LET out == calc.output.config
        IN  /\ Range(out) = { Lower(Strip(calc.input[k])) : k \in DOMAIN calc.input } \ {<<>>}
            /\ \A i \in DOMAIN out : \A j \in DOMAIN out : i # j => out[i] # out[j]
            /\ \A i \in DOMAIN out : \A j \in DOMAIN out :
                  i < j => C19_FirstSeen(out[i]) < C19_FirstSeen(out[j])
            /\ \A i \in DOMAIN out :
                  /\ out[i] # <<>>
                  /\ Strip(out[i]) = out[i]
                  /\ Range(out[i]) \cap Range(UpperAlpha) = {}
            /\ calc.output.again = out
            /\ calc.output.request = out

\* <" a", "A", "b"> was normalised to <"a", "b">
C19_Witness ==
    /\ calc.fn = "groups" /\ calc.done
    /\ calc.input = << <<" ", "a">>, <<"A">>, <<"b">> >>
    /\ calc.output.config = << <<"a">>, <<"b">> >>

----------------------------------------------------------------------------
(* Claims about the polling loops, checked under SpecPropLive. *)

\* the timeout the running loop is bounded by
C20_Timeout == IF prop.pc = "wait_poll" THEN prop.watchTimeout ELSE prop.healthTimeout

\* C20: both polling loops (poll_health and the loop of
\* wait_for_watch_mode_reload) end; the elapsed time is compared with the
\* timeout at the start of every iteration, and an iteration whose elapsed
\* time exceeds the timeout issues no poll and ends the loop with the timeout
\* failure.
C20_LoopsTerminate ==
    /\ [][(prop.pc \in {"wait_poll", "health_poll"} /\ prop.elapsed > C20_Timeout) =>
             /\ prop'.polls = prop.polls
             /\ prop'.pc = "done" /\ ~prop'.succeeded
             /\ prop'.detail \in {"watch_timeout", "health_timeout"}]_vars
    /\ (prop.pc \in {"wait_poll", "health_poll"}) ~> (prop.pc = "done")

\* the health polling after a restart has timed out after polls were issued
C20_Witness ==
    /\ prop.pc = "done" /\ prop.detail = "health_timeout"
    /\ prop.polls > 1
    /\ prop.elapsed > prop.healthTimeout

----------------------------------------------------------------------------
(* Further claims about the propagator. *)

\* C21: a poll ends the loop with success exactly when it returns 200 with a
\* recognised healthy status or 200 with a body that cannot be parsed; any
\* other poll leaves the loop polling, and the timeout is an outcome with
\* succeeded = FALSE.
C21_SuccessExactlyWhenHealthy ==
    /\ (prop.pc = "done" /\ prop.succeeded) <=> prop.lastPoll \in {"up", "unparsable"}
    /\ prop.pc = "done" /\ prop.detail \in {"watch_timeout", "health_timeout"}
          => ~prop.succeeded

\* C22: a restart command that exits non-zero gives succeeded = FALSE with
\* the command's stderr (stdout when stderr is empty) as detail and no
\* liveness poll; polling in the restart branch starts only after exit code 0.
C22_NonZeroExitFailsFast ==
    /\ prop.command.exit = "nonzero" =>
          /\ prop.pc = "done" /\ ~prop.succeeded /\ prop.detail = "restart_failed"
          /\ prop.polls = 0 /\ prop.lastPoll = "none"
          /\ Strip(prop.command.stderr) # <<>> =>
                prop.errorMsg = Strip(prop.command.stderr)
          /\ prop.command.stderr = <<>> =>
                prop.errorMsg = Strip(prop.command.stdout)
    /\ prop.branch = "restart" /\ (prop.pc = "health_poll" \/ prop.polls > 0) =>
          prop.command.exit = "zero"

\* the command has failed with text on both streams
C22_Witness ==
    /\ prop.pc = "done" /\ prop.command.exit = "nonzero"
    /\ prop.command.stderr = <<"e", "r", "r", "\n">>
    /\ prop.command.stdout = <<" ", "o", "u", "t">>
    /\ prop.errorMsg = <<"e", "r", "r">>

\* the configuration files from which the watch flag cannot be determined
C23_Undetermined == ConfigFiles \ {"watch_true", "watch_false"}

\* C23: when the watch-mode flag cannot be determined (file missing, key path
\* missing, parse error, unexpected exception of the detection), the flag
\* counts as false and apply_changes with force-restart unset takes the
\* restart branch; the decision is always made and the call ends by
\* returning an outcome.
C23_UndeterminedMeansRestart ==
    (prop.pc # "idle" /\ ~prop.force /\ prop.config \in C23_Undetermined) =>
        /\ ~DetectWatchMode(prop.config).value
        /\ prop.branch = "restart"
        /\ prop.pc \in {"restart_cmd", "health_poll", "done"}
        /\ prop.pc # "restart_cmd" => prop.restartRuns = 1
        /\ prop.pc = "done" =>
              prop.detail \in {"restarted", "health_timeout",
                               "restart_failed", "restart_error"}

\* the detection has raised and the restart that followed has succeeded
C23_Witness ==
    /\ ~prop.force /\ prop.config = "stat_error"
    /\ prop.pc = "done" /\ prop.succeeded /\ prop.detail = "restarted"

\* C26: in the wait-for-reload branch the timeout bounds the polling loop
\* itself (the deadline is taken at loop entry, after the grace period): for
\* any positive watch-mode timeout at least one poll is made before the call
\* ends, so a timeout is never reported without a poll.
C26_PollBeforeTimeout ==
    (prop.branch = "wait" /\ prop.pc = "done" /\ prop.watchTimeout > 0) =>
        prop.polls >= 1

----------------------------------------------------------------------------
(* Further claims about the route handlers, checked under SpecRoute. *)

\* C24: a create or delete that succeeds calls apply_changes exactly once,
\* the restart command runs at most once in that call, and save_users was
\* entered once; a create or delete that fails (validation, conflict, not
\* found, last admin, persist error) does not call apply_changes and does not
\* enter save_users a second time.
C24_OnceAndNoRetry ==
    /\ prop.restartRuns <= 1
    /\ route.pc \in {"idle", "store_call"} => prop.pc = "idle"
    /\ route.pc = "responded" =>
          IF route.status = 200
          THEN /\ route.applies = 1 /\ route.restartRuns <= 1
               /\ calls = route.callsBefore + 1
          ELSE /\ route.applies = 0 /\ route.restartRuns = 0
               /\ prop.pc = "idle"
               /\ calls = route.callsBefore + (IF route.status = 500 THEN 1 ELSE 0)

\* a mutation was written, the restart command failed, and the answer is out
C24_Witness ==
    /\ route.pc = "responded" /\ route.status = 200
    /\ route.restartStatus.detail = "restart_failed"
    /\ route.applies = 1 /\ route.restartRuns = 1

----------------------------------------------------------------------------
(* Claims about the application, checked under SpecApp. *)

\* the request fails the session, the RBAC or the CSRF check
C25_Rejected(request) ==
    \/ request.path \notin {"/health", "/"} /\ ~CheckSession(request)
    \/ /\ request.method \in ModifyingMethods
       /\ request.path \notin ExemptPaths
       /\ ~CheckRbac(request) \/ ~CheckCsrf(request)

\* C25: when the access guard rejects a request (session expired, forbidden,
\* CSRF failure) the route handler is not invoked: the request changes
\* neither the store file, nor the backups, nor the audit log, and the
\* propagator does not run.
C25_RejectedChangesNothing ==
    [][(guard.phase # "idle" /\ C25_Rejected(guard.request)) =>
          /\ guard'.phase \in {"responded", "idle"}
          /\ guard'.phase = "responded" =>
                /\ guard'.response.status \in {401, 403, 400}
                /\ ~guard'.response.handler
          /\ UNCHANGED <<storeFile, tempFile, backups, audit, prop, route, pc, calls>>]_vars

\* a DELETE of an admin with a CSRF header that differs from the cookie has
\* been answered with 400, on a store that holds records
C25_Witness ==
    /\ guard.phase = "responded" /\ guard.response.status = 400
    /\ guard.request.method = "DELETE"
    /\ CheckRbac(guard.request) /\ CheckSession(guard.request)
    /\ storeFile.exists /\ audit # <<>>

----------------------------------------------------------------------------
(* Further claims about the access guard, checked under SpecGuard. *)

\* the state-changing request a browser sends from the page of the answer:
\* the cookies of the answer, and the page's token in the csrf_token field
C27_FormPost ==
    [guard.request EXCEPT !.method = "POST", !.path = "/users",
                          !.session = guard.response.session,
                          !.csrfCookie = guard.response.csrf,
                          !.csrfHeader = NoToken,
                          !.formBody = TRUE,
                          !.csrfField = guard.response.pageToken]

\* C27: the CSRF token the dashboard reads from the request state while a GET
\* is handled is the signed token the middleware sets in the csrf cookie of
\* the response, so a form rendered with it passes the double-submit check
\* of the next state-changing request.
C27_PageTokenIsCookieToken ==
    (/\ guard.phase = "responded" /\ guard.response.handler
     /\ guard.request.method = "GET" /\ guard.request.path = "/") =>
        /\ guard.response.pageToken = guard.response.csrf
        /\ CheckCsrf(C27_FormPost)

----------------------------------------------------------------------------
(* Claims about concurrent requests, checked under SpecConcurrent. *)

\* the store call of request h is over
C28_Finished(h) == handlers[h].pc \in {"stored", "done"}

\* C28: within one process the load-check-save sequence of add_user and of
\* delete_user runs without a suspension point, so the store calls of two
\* concurrent requests never interleave: of two creates of the same new
\* username exactly one succeeds and the other gets the conflict (when no
\* save fails), and two deletions of the last two admins never both succeed.
C28_StoreCallsDoNotInterleave ==
    \A g \in Handlers : \A h \in Handlers \ {g} :
        /\ ~(handlers[g].pc = "loaded" /\ handlers[h].pc = "loaded")
        /\ (/\ C28_Finished(g) /\ C28_Finished(h)
            /\ handlers[g].kind = "add" /\ handlers[h].kind = "add"
            /\ handlers[g].user = Cat /\ handlers[h].user = Cat) =>
               /\ ~(handlers[g].outcome = "ok" /\ handlers[h].outcome = "ok")
               /\ "ioerror" \notin {handlers[g].outcome, handlers[h].outcome} =>
                     {handlers[g].outcome, handlers[h].outcome} = {"ok", "exists"}
        /\ (/\ C28_Finished(g) /\ C28_Finished(h)
            /\ handlers[g].kind = "delete" /\ handlers[h].kind = "delete"
            /\ handlers[g].user # handlers[h].user) =>
               /\ ~(handlers[g].outcome = "ok" /\ handlers[h].outcome = "ok")
               /\ "ok" \in {handlers[g].outcome, handlers[h].outcome} =>
                     Admins(LoadUsers(storeFile).users) # {}

\* two creates of the same new username were in flight together: the first
\* has succeeded, the second has the conflict
C28_Witness ==
    /\ handlers[1].kind = "add" /\ handlers[1].user = Cat /\ handlers[1].outcome = "exists"
    /\ handlers[2].kind = "add" /\ handlers[2].user = Cat /\ handlers[2].outcome = "ok"
    /\ handlers[1].pc = "done" /\ handlers[2].pc = "stored"

\* the next request of the same client on another path: it carries the
\* session cookie the response has set, or the old one when none was set
C30_NextRequest ==
    [guard.request EXCEPT !.method = "GET", !.path = "/users",
                          !.session = IF guard.response.setSession
                                      THEN guard.response.session
                                      ELSE guard.request.session]

\* C30: a client whose session cookie has expired is not locked out: its GET
\* of '/' is served and sets a fresh session cookie, with which requests on
\* other paths pass the session check again; every response of a route
\* handler on a path other than '/health' refreshes the session cookie, and
\* the 401 for an expired session does not.
C30_ExpiredSessionRecovers ==
    guard.phase = "responded" =>
        /\ (/\ guard.request.path = "/" /\ guard.request.method = "GET"
            /\ ~CheckSession(guard.request)) =>
               /\ guard.response.handler
               /\ guard.response.setSession
               /\ CheckSession(C30_NextRequest)
               /\ Dispatch(C30_NextRequest).handler
        /\ (guard.response.handler /\ guard.request.path # "/health") =>
               /\ guard.response.setSession
               /\ guard.response.session.present
               /\ Loads(guard.response.session, SessionTtlMinutes * 60).ok
        /\ guard.response.status = 401 =>
               /\ ~guard.response.setSession
               /\ ~guard.response.session.present

\* the dashboard was served to a client with an expired session cookie
C30_Witness ==
    /\ guard.phase = "responded"
    /\ guard.request.path = "/" /\ guard.request.method = "GET"
    /\ guard.request.session = Token("s", TRUE, SessionTtlMinutes * 60 + 1)
    /\ guard.response.handler /\ guard.response.session = FreshSession

====
